---- MODULE Spec2Model ----
(***************************************************************************)
(* Asynchronous image-classification pipeline of image-classifier-app:     *)
(* the record store (src/app/database.py), the fetch-and-classify unit and *)
(* the thread pool task (src/app/worker.py) and the HTTP handlers that     *)
(* submit jobs, classify one URL, poll a job and review the classified     *)
(* images (src/app/main.py).                                               *)
(*                                                                         *)
(* Processes: the API process runs its "async def" handlers one at a time  *)
(* on a single event loop (no handler awaits), the Celery worker process   *)
(* runs each job on a ThreadPoolExecutor.  The SQL database and the Celery *)
(* result backend are shared between the two processes, so every database  *)
(* transaction and every backend read is one atomic step and steps of the  *)
(* API handler interleave with steps of the worker threads.                *)
(*                                                                         *)
(* The database is durable: Init draws its content from rows that the      *)
(* declared schema admits (placeholder rows of earlier deployments).       *)
(*                                                                         *)
(* Spec is the whole system.  SpecPool (submissions and the worker) and    *)
(* SpecSingle (the single-item endpoint) are its parts, as is SpecReview   *)
(* (the review endpoints next to the single-item endpoint); SpecRepeat is  *)
(* one task whose batch repeats a URL and SpecLive one task under fair     *)
(* scheduling; SpecUnit is download_and_classify_url                       *)
(* called on its own, also for a URL without a record; SpecModel is        *)
(* get_model step by step under the threads of the pool; SpecInfer is the  *)
(* decision rule and the formatting of one prediction.                     *)
(***************************************************************************)
EXTENDS Integers, Sequences, FiniteSets, TLC

\* ----- bounds of the model -----
\* URLs and job ids the clients send in one run: a submission counts one per
\* URL, every other request counts one
MaxLoad == 2
\* length of a batch that names one URL over and over
MaxRepeat == 5
\* model outputs tried next to the decision boundary, in 1/100000
MaxProbe == 150
MaxDbFaults == 1
\* length of the batch of the task that is followed to its end; the pool has
\* MAX_WORKERS = 2 threads
MaxBatch == 3
TickSeconds == 900

\* ----- program constants -----
MAX_WORKERS == 2
result_expires == 900

URLS == {"u1", "u2"}
CLASS_NAMES == <<"environment", "studio">>

NULL == "NULL"
NoConf == -1

\* score of the model in units of 1/100000
ScoreUnit == 100000
Scores == {12344, 50000}
\* what requests.get(url, timeout=15) and the decoding of its body can give
FetchOutcomes == {[kind |-> k, score |-> 0] : k \in {"httpError", "notImage", "badImage"}}
                 \cup {[kind |-> "image", score |-> s] : s \in Scores}

Processes == {"api", "worker"}

\* ----- strings: sequences of characters -----
DigitChar(d) == CASE d = 0 -> "0" [] d = 1 -> "1" [] d = 2 -> "2" [] d = 3 -> "3"
                  [] d = 4 -> "4" [] d = 5 -> "5" [] d = 6 -> "6" [] d = 7 -> "7"
                  [] d = 8 -> "8" [] OTHER -> "9"

RECURSIVE IntStr(_)
IntStr(n) == IF n < 10 THEN <<DigitChar(n)>>
             ELSE IntStr(n \div 10) \o <<DigitChar(n % 10)>>

\* round(confidence*100, 2) and the rounding of "{:.2f}": the confidence in
\* 1/100000 rounded half-even to hundredths of a percent
RoundHundredths(c5) ==
    LET q == c5 \div 10
        r == c5 % 10
    IN IF r > 5 \/ (r = 5 /\ q % 2 = 1) THEN q + 1 ELSE q

\* f"{(confidence*100):.2f}" : always two decimals
FormatFixed2(c5) ==
    LET h == RoundHundredths(c5)
    IN IntStr(h \div 100) \o <<".">> \o <<DigitChar((h \div 10) % 10), DigitChar(h % 10)>>

\* str(float) of a stored confidence_level of h hundredths: shortest repr
StrFloat(h) ==
    IntStr(h \div 100) \o <<".">> \o
      (IF h % 100 = 0 THEN <<"0">>
       ELSE IF h % 10 = 0 THEN <<DigitChar((h \div 10) % 10)>>
       ELSE <<DigitChar((h \div 10) % 10), DigitChar(h % 10)>>)

ZeroStr == <<"0">>

\* ----- decision rule, worker.py 147-154 -----
\* a rule that sends the boundary score to environment
ClassOfStrict(score) == IF 2 * score > ScoreUnit THEN CLASS_NAMES[2] ELSE CLASS_NAMES[1]

ClassOf(score) == IF 2 * score >= ScoreUnit THEN CLASS_NAMES[2] ELSE CLASS_NAMES[1]
ConfidenceOf(score) == IF 2 * score >= ScoreUnit THEN score ELSE ScoreUnit - score

IsError(status) == status \notin {NULL, "processing", "success"}

\* ----- record store: table image_records, database.py 21-40 -----
NoJob == 0
Fields == {"image_type", "status", "predicted_class", "confidence_level", "job_id",
           "folder_location", "re_label", "admin_reviewed"}

\* the attributes of an ImageRecord instance, database.py 25-40
Columns == {"url", "image_type", "predicted_class", "status", "confidence_level", "job_id",
            "folder_location", "local_filename", "re_label", "admin_reviewed", "local_url",
            "prediction_model_version", "upload_file_name", "datetime_added"}
\* the fields of a URLClassificationResult, baseModels.py 9-14
ResultFields == {"url", "status", "predicted_class", "confidence_level"}

\* ImageRecord(url=...) before any attribute is set
BlankRecord == [image_type |-> NULL, status |-> NULL, predicted_class |-> NULL,
                confidence_level |-> NoConf, job_id |-> NoJob,
                folder_location |-> NULL, re_label |-> FALSE, admin_reviewed |-> FALSE]

ImageRecord(status) == [BlankRecord EXCEPT !.status = status]

\* a row written by a deployment whose inserts carried an image_type
PlaceholderRow == [BlankRecord EXCEPT !.image_type = "url"]

\* INSERT of a new row at commit: the primary key is unique and image_type
\* is declared nullable=False without a default
InsertError(st, u, row) ==
    IF row.image_type = NULL THEN "IntegrityError"
    ELSE IF u \in DOMAIN st THEN "IntegrityError"
    ELSE NULL

Insert(st, u, row) == (u :> row) @@ st

\* UPDATE at commit: the session writes the attributes whose value differs
\* from the value it loaded (every set attribute when the instance is expired)
Update(st, u, loaded, changes, expired) ==
    [st EXCEPT ![u] = [f \in Fields |->
        IF f \in DOMAIN changes /\ (expired \/ changes[f] # loaded[f])
        THEN changes[f] ELSE @[f]]]

\* the UPDATE statements that commit emits: one when an attribute was set to
\* a value other than the loaded one, none when nothing changed
Writes(loaded, changes, expired) ==
    IF \E f \in DOMAIN changes : expired \/ changes[f] # loaded[f] THEN 1 ELSE 0

\* ----- URLClassificationResult, baseModels.py 9-14 -----
NoResult == [url |-> NULL, status |-> NULL, predicted_class |-> NULL,
             confidence_level |-> <<>>]

URLClassificationResult(u, status, cls, conf) ==
    [url |-> u, status |-> status, predicted_class |-> cls, confidence_level |-> conf]

ErrorStatus(exc) == "error - " \o exc

\* an error result that leaves the class unset
ErrorResultWithoutClass(u, status) == URLClassificationResult(u, status, NULL, ZeroStr)

\* worker.py 131, 141, 205
ErrorResult(u, status) == URLClassificationResult(u, status, "unknown", ZeroStr)

\* worker.py 105-112
CacheHitResult(row, u) ==
    URLClassificationResult(u, row.status, row.predicted_class,
                            StrFloat(row.confidence_level))

\* ----- callers of download_and_classify_url -----
JobIds == 1..MaxLoad
ApiCaller == <<0, 0>>
MaxItems == IF MaxRepeat > MaxLoad THEN MaxRepeat ELSE MaxLoad
Callers == {ApiCaller} \cup (JobIds \X (1..MaxLoad)) \cup ({1} \X (1..MaxItems))
ProcessOf(c) == IF c = ApiCaller THEN "api" ELSE "worker"

IdleUnit == [pc |-> "idle", url |-> NULL, loaded |-> BlankRecord,
             result |-> NoResult, exc |-> NULL, fetched |-> NULL, writes |-> 0]

VARIABLES
    store,      \* image_records: url -> row, for the urls that have a row
    model,      \* the global model of each process: "None" or "loaded"
    artifact,   \* the model artifact at MODEL_PATH: "ok" or "missing"
    unit,       \* one invocation of download_and_classify_url per caller
    dbFaults    \* database failures the environment may still inject

unitVars == <<store, model, artifact, unit, dbFaults>>

VARIABLES
    jobs,       \* every task id issued by delay(): its urls and where the task is
    backend,    \* the result backend: the metadata stored under each task id
    nextJob     \* the next task id delay() issues

jobVars == <<jobs, backend, nextJob>>

NoJobEntry == [urls |-> <<>>, phase |-> "none"]

\* a task id without stored metadata reads as PENDING
NoMeta == [status |-> "PENDING", result |-> <<>>, info |-> NULL, ttl |-> 0]

READY_STATES == {"SUCCESS", "FAILURE", "REVOKED"}

\* the API process: one handler at a time
VARIABLES
    api,        \* the handler the event loop is running, and its locals
    resp,       \* the last response the API produced
    requests    \* load the clients may still send

apiVars == <<api, resp, requests>>

\* the pool threads of the worker process inside get_model
VARIABLES
    model_lock, \* threading.Lock(): 0 when free, else the thread that holds it
    gm,         \* per thread: where it is in get_model and what its last call returned
    loadCount   \* calls of keras.models.load_model: tried, and built (returned a model)

gmVars == <<model_lock, gm, loadCount>>

\* one inference on its own
VARIABLE
    infer       \* the score of the last prediction and the results built from it

\* what the handlers and the task leave alone
sideVars == <<gmVars, infer>>

vars == <<store, model, artifact, unit, dbFaults, jobs, backend, nextJob, api, resp, requests,
          model_lock, gm, loadCount, infer>>

\* get_job_status: the result of the response, None, a list or a string
NullResult == [kind |-> "null", list |-> <<>>, str |-> NULL]
ListResult(l) == [kind |-> "list", list |-> l, str |-> NULL]
ExcResult(e) == [kind |-> "exc", list |-> <<>>, str |-> e]
StrResult(e) == [kind |-> "str", list |-> <<>>, str |-> e]

\* about: what the request was; added is the status of the records the handler
\* added to its session, "none" when it added no record
\* repeats says that the list named a url without a record more than once
NoAbout == [url |-> NULL, issued |-> FALSE, expired |-> FALSE, fresh |-> FALSE, count |-> 0,
            added |-> "none", repeats |-> FALSE]

IdleApi == [op |-> "idle", job |-> 0, link |-> <<>>, meta |-> NoMeta, cached |-> FALSE,
            status |-> NULL, result |-> NullResult, about |-> NoAbout]

NoResp == [op |-> "none", code |-> 0, detail |-> NULL, job_id |-> 0, status |-> NULL,
           result |-> NullResult, item |-> NoResult, about |-> NoAbout,
           listed |-> {}, copy |-> NULL]

Respond(op, code, detail, about) ==
    [NoResp EXCEPT !.op = op, !.code = code, !.detail = detail, !.about = about]

\* executor.map, worker.py 301-302: the urls of the task are queued in order
\* and each of the MAX_WORKERS pool threads takes the next one when it is free
Items(j) == 1..Len(jobs[j].urls)
Waiting(un, j) == {i \in Items(j) : un[<<j, i>>].pc = "idle"}
InFlight(un, j) == {i \in Items(j) : un[<<j, i>>].pc \in {"lookup", "work"}}

\* a pool whose threads end with their first item
DispatchOnce(un, j) ==
    [c \in Callers |->
          IF c[1] = j /\ c[2] \in Waiting(un, j) /\ c[2] <= MAX_WORKERS
          THEN [IdleUnit EXCEPT !.pc = "lookup", !.url = jobs[j].urls[c[2]]]
          ELSE un[c]]

Dispatch(un, j) ==
    LET free == MAX_WORKERS - Cardinality(InFlight(un, j))
        take == {i \in Waiting(un, j) : Cardinality({k \in Waiting(un, j) : k < i}) < free}
    IN [c \in Callers |->
          IF c[1] = j /\ c[2] \in take
          THEN [IdleUnit EXCEPT !.pc = "lookup", !.url = jobs[j].urls[c[2]]]
          ELSE un[c]]

DbChoices == IF dbFaults > 0 THEN BOOLEAN ELSE {TRUE}
Cost(ok) == IF ok THEN 0 ELSE 1

\* ----- get_model, worker.py 261-290 -----
\* one call as a whole, as download_and_classify_url sees it
get_model(m, p) ==
    IF m[p] = "None" /\ artifact = "ok" THEN [m EXCEPT ![p] = "loaded"] ELSE m

\* the same function step by step, for the threads of the worker's pool
Threads == 1..MAX_WORKERS
IdleCall == [pc |-> "idle", ret |-> NULL]
LoadSection == {"load", "warm"}

\* a get_model that loads whenever it holds the lock
StillNoneUnchecked(m) == TRUE

\* if model is None, line 275, under the lock
StillNone(m) == m = "None"

GmGoto(t, pc) == gm' = [gm EXCEPT ![t].pc = pc]

\* a pool thread calls get_model, line 134
GmCall(t) ==
    /\ gm[t].pc = "idle"
    /\ requests > 0
    /\ requests' = requests - 1
    /\ GmGoto(t, "check")
    /\ UNCHANGED <<model, model_lock, loadCount>>

\* line 268: the check without the lock; 289-290 when the model is there
GmCheck(t) ==
    /\ gm[t].pc = "check"
    /\ gm' = [gm EXCEPT ![t] = IF model["worker"] = "None"
                                THEN [@ EXCEPT !.pc = "acquire"]
                                ELSE [pc |-> "idle", ret |-> model["worker"]]]
    /\ UNCHANGED <<model, model_lock, loadCount, requests>>

\* line 271: with model_lock
GmAcquire(t) ==
    /\ gm[t].pc = "acquire"
    /\ model_lock = 0
    /\ model_lock' = t
    /\ GmGoto(t, "recheck")
    /\ UNCHANGED <<model, loadCount, requests>>

\* line 275 / 286-287: the second check
GmRecheck(t) ==
    /\ gm[t].pc = "recheck"
    /\ GmGoto(t, IF StillNone(model["worker"]) THEN "load" ELSE "release")
    /\ UNCHANGED <<model, model_lock, loadCount, requests>>

\* line 279: model = keras.models.load_model(MODEL_PATH); a missing artifact
\* raises into the handler of 284-285 and the global stays None
GmLoad(t) ==
    /\ gm[t].pc = "load"
    /\ IF artifact = "missing"
       THEN /\ loadCount' = [loadCount EXCEPT !.tried = @ + 1]
            /\ GmGoto(t, "release")
            /\ model' = model
       ELSE /\ loadCount' = [tried |-> loadCount.tried + 1, built |-> loadCount.built + 1]
            /\ GmGoto(t, "warm")
            /\ model' = [model EXCEPT !["worker"] = "loaded"]
    /\ UNCHANGED <<model_lock, requests>>

\* line 282: the dummy prediction; its exception is caught at 284-285 with
\* the global already assigned
GmWarm(t) ==
    /\ gm[t].pc = "warm"
    /\ GmGoto(t, "release")
    /\ UNCHANGED <<model, model_lock, loadCount, requests>>

\* the end of the with block
GmRelease(t) ==
    /\ gm[t].pc = "release"
    /\ model_lock' = 0
    /\ GmGoto(t, "return")
    /\ UNCHANGED <<model, loadCount, requests>>

\* line 290: return model
GmReturn(t) ==
    /\ gm[t].pc = "return"
    /\ gm' = [gm EXCEPT ![t] = [pc |-> "idle", ret |-> model["worker"]]]
    /\ UNCHANGED <<model, model_lock, loadCount, requests>>

\* ----- download_and_classify_url, worker.py 92-208 -----
\* the except clause, 196-205: the error status is committed when the
\* record is persistent; a failure of that commit leaves the function
HandlerOutcome(st, u, loaded, exc, expired, dbOk2) ==
    IF dbOk2
    THEN [store |-> Update(st, u, loaded, [status |-> ErrorStatus(exc)], expired),
          result |-> ErrorResult(u, ErrorStatus(exc)), exc |-> NULL,
          writes |-> Writes(loaded, [status |-> ErrorStatus(exc)], expired)]
    ELSE [store |-> st, result |-> NoResult, exc |-> "OperationalError", writes |-> 0]

\* a commit of the try block, 130 / 140 / 187, followed by the return
CommitOutcome(st, u, loaded, changes, result, dbOk1, dbOk2) ==
    IF dbOk1
    THEN [store |-> Update(st, u, loaded, changes, FALSE), result |-> result, exc |-> NULL,
          writes |-> Writes(loaded, changes, FALSE)]
    ELSE HandlerOutcome(st, u, loaded, "OperationalError", TRUE, dbOk2)

SuccessChanges(score) ==
    [status |-> "success", predicted_class |-> ClassOf(score),
     confidence_level |-> RoundHundredths(ConfidenceOf(score)), image_type |-> "url",
     folder_location |-> "YYYYMMDD"]

SuccessResult(u, score) ==
    URLClassificationResult(u, "success", ClassOf(score), FormatFixed2(ConfidenceOf(score)))

\* ----- one prediction and the three results it can lead to -----
NoInference == [score |-> -1, record |-> BlankRecord, fresh |-> NoResult, hit |-> NoResult,
                error |-> NoResult]

\* lines 143-194 for a model output of score: the record the success path
\* commits, the result it returns, the result a later cache hit returns and
\* the result an error path returns for the url
Inference(u, score) ==
    LET row == [f \in Fields |-> IF f \in DOMAIN SuccessChanges(score)
                                 THEN SuccessChanges(score)[f] ELSE BlankRecord[f]]
    IN [score |-> score, record |-> row, fresh |-> SuccessResult(u, score),
        hit |-> CacheHitResult(row, u), error |-> ErrorResult(u, ErrorStatus("HTTPError"))]

\* if not current_model, line 137
Unavailable(mdl) == mdl = "None"

\* lines 121-205 for a persistent record
WorkOutcome(st, u, loaded, mdl, fetch, dbOk1, dbOk2) ==
    IF fetch.kind = "httpError"
    THEN HandlerOutcome(st, u, loaded, "HTTPError", FALSE, dbOk2)
    ELSE IF fetch.kind = "notImage"
    THEN CommitOutcome(st, u, loaded,
                       [status |-> "error - url is not an image", predicted_class |-> "unknown"],
                       ErrorResult(u, "error - url is not an image"), dbOk1, dbOk2)
    ELSE IF Unavailable(mdl)
    THEN CommitOutcome(st, u, loaded, [status |-> "error - model not available"],
                       ErrorResult(u, "error - model not available"), dbOk1, dbOk2)
    ELSE IF fetch.kind = "badImage"
    THEN HandlerOutcome(st, u, loaded, "UnidentifiedImageError", FALSE, dbOk2)
    ELSE CommitOutcome(st, u, loaded, SuccessChanges(fetch.score), SuccessResult(u, fetch.score),
                       dbOk1, dbOk2)

\* commits that WorkOutcome attempts and that fail
WorkFaults(mdl, fetch, dbOk1, dbOk2) ==
    IF fetch.kind = "httpError"
       \/ (fetch.kind = "badImage" /\ mdl # "None")
    THEN Cost(dbOk2)
    ELSE IF dbOk1 THEN 0 ELSE 1 + Cost(dbOk2)

\* the invocation ends: it returned a result or an exception left it.  A pool
\* thread then takes the next url of its task; classify_image_url, main.py
\* 248-251, answers with the result and does not catch an exception.
\* fetched is what requests.get gave a pool thread, NULL without a fetch;
\* writes counts the INSERT and UPDATE statements the invocation committed
Finish(c, out, fetched) ==
    IF c = ApiCaller
    THEN /\ unit' = [unit EXCEPT ![c] = IdleUnit]
         /\ resp' = IF out.exc = NULL
                    THEN [Respond("single", 200, NULL, api.about) EXCEPT !.item = out.result]
                    ELSE Respond("single", 500, "Internal Server Error", api.about)
         /\ api' = IdleApi
    ELSE /\ unit' = Dispatch([unit EXCEPT ![c] =
                         [@ EXCEPT !.pc = IF out.exc = NULL THEN "returned" ELSE "raised",
                                   !.result = out.result, !.exc = out.exc,
                                   !.fetched = fetched,
                                   !.writes = @ + out.writes]], c[1])
         /\ UNCHANGED <<api, resp>>

Continue(c, loaded, inserts) ==
    /\ unit' = [unit EXCEPT ![c] = [@ EXCEPT !.pc = "work", !.loaded = loaded,
                                             !.writes = inserts]]
    /\ UNCHANGED <<api, resp>>

\* lines 100-119: the query, the cache check and, when the query found no
\* record, its creation; a failed creating commit expunges the new instance,
\* so the except clause has nothing to commit
UnitLookup(c) ==
    /\ unit[c].pc = "lookup"
    /\ \E dbOk \in DbChoices :
        LET u == unit[c].url
            row == ImageRecord("processing")
            err == IF ~dbOk THEN "OperationalError"
                   ELSE IF u \in DOMAIN store THEN NULL
                   ELSE InsertError(store, u, row)
        IN
        /\ dbFaults' = dbFaults - Cost(dbOk)
        /\ IF err # NULL
           THEN /\ store' = store
                /\ Finish(c, [result |-> ErrorResult(u, ErrorStatus(err)), exc |-> NULL,
                              writes |-> 0], NULL)
           ELSE IF u \notin DOMAIN store
           THEN /\ store' = Insert(store, u, row)
                /\ Continue(c, row, 1)
           ELSE IF store[u].status = "success"
           THEN /\ store' = store
                /\ Finish(c, [result |-> CacheHitResult(store[u], u), exc |-> NULL,
                              writes |-> 0], NULL)
           ELSE /\ store' = store
                /\ Continue(c, store[u], 0)
    /\ UNCHANGED <<model, artifact, jobVars, requests, sideVars>>

\* lines 121-205: fetch, validation, inference and commit
UnitWork(c) ==
    /\ unit[c].pc = "work"
    /\ \E fetch \in FetchOutcomes, dbOk1 \in DbChoices, dbOk2 \in DbChoices :
        LET u == unit[c].url
            p == ProcessOf(c)
            loads == fetch.kind \notin {"httpError", "notImage"}
            m2 == IF loads THEN get_model(model, p) ELSE model
            out == WorkOutcome(store, u, unit[c].loaded, m2[p], fetch, dbOk1, dbOk2)
            used == WorkFaults(m2[p], fetch, dbOk1, dbOk2)
        IN
        /\ used <= dbFaults
        /\ dbFaults' = dbFaults - used
        /\ model' = m2
        /\ store' = out.store
        /\ Finish(c, out, fetch.kind)
    /\ UNCHANGED <<artifact, jobVars, requests, sideVars>>

\* ----- Celery: broker, task and result backend, worker.py 52-57, 296-306 -----
\* the worker process takes the next task from the broker when it is free and
\* the pool starts on its urls
TaskStart(j) ==
    /\ jobs[j].phase = "queued"
    /\ \A k \in JobIds : jobs[k].phase # "running"
    /\ jobs' = [jobs EXCEPT ![j].phase = "running"]
    /\ unit' = Dispatch(unit, j)
    /\ UNCHANGED <<backend, nextJob, store, model, artifact, dbFaults, sideVars>>

\* a gather in the order of completion, in the run where the threads finish
\* in the reverse of the order of the urls
GatherResultsAsCompleted(j) ==
    [i \in Items(j) |-> unit[<<j, Len(jobs[j].urls) + 1 - i>>].result]

\* list(executor.map(...)) and model_dump, lines 302-304: the results in the
\* order of the urls
GatherResults(j) == [i \in Items(j) |-> unit[<<j, i>>].result]

Raised(j) == {i \in Items(j) : unit[<<j, i>>].pc = "raised"}
FirstRaised(j) == CHOOSE i \in Raised(j) : \A k \in Raised(j) : i <= k

\* a task that returns with the first item that is done
FirstDone(j) == \E i \in Items(j) : unit[<<j, i>>].pc \in {"returned", "raised"}

\* lines 301-302: list() drains the map and the with block joins the pool,
\* so the task goes on when every item has returned or raised
AllDone(j) == \A i \in Items(j) : unit[<<j, i>>].pc \in {"returned", "raised"}

\* the task returns (SUCCESS) or the first exception of the map leaves it
\* (FAILURE); the executor has joined all its threads by then
TaskFinish(j) ==
    /\ jobs[j].phase = "running"
    /\ AllDone(j)
    /\ jobs' = [jobs EXCEPT ![j].phase = "finished"]
    /\ backend' = [backend EXCEPT ![j] =
          IF Raised(j) = {}
          THEN [status |-> "SUCCESS", result |-> GatherResults(j), info |-> NULL,
                ttl |-> result_expires]
          ELSE [status |-> "FAILURE", result |-> <<>>,
                info |-> unit[<<j, FirstRaised(j)>>].exc, ttl |-> result_expires]]
    /\ unit' = [c \in Callers |-> IF c[1] = j THEN IdleUnit ELSE unit[c]]
    /\ UNCHANGED <<store, model, artifact, dbFaults, nextJob, sideVars>>

\* time passes; the backend drops the metadata whose result_expires elapsed
Tick ==
    /\ \E j \in JobIds : jobs[j].phase = "finished"
    /\ backend' = [j \in JobIds |->
          IF jobs[j].phase = "finished" /\ backend[j].ttl <= TickSeconds
          THEN NoMeta
          ELSE IF jobs[j].phase = "finished"
          THEN [backend[j] EXCEPT !.ttl = @ - TickSeconds]
          ELSE backend[j]]
    /\ jobs' = [j \in JobIds |->
          IF jobs[j].phase = "finished" /\ backend[j].ttl <= TickSeconds
          THEN [jobs[j] EXCEPT !.phase = "expired"]
          ELSE jobs[j]]
    /\ UNCHANGED <<nextJob, unitVars, sideVars>>

\* ----- HTTP handlers of the API process, main.py -----
\* a client sends a request of the given load to the idle event loop
Accept(load) ==
    /\ api.op = "idle"
    /\ requests >= load
    /\ requests' = requests - load

Batches == UNION {[1..n -> URLS] : n \in 0..MaxLoad}

\* a handler that takes every url for one that has its record
UnseenNone(st, urls) == <<>>

\* the urls without a record, for which lines 157-163 add a placeholder
Unseen(st, urls) == SelectSeq(urls, LAMBDA u : u \notin DOMAIN st)

\* lines 152-163 with autoflush off (database.py 16): the query for a later
\* occurrence of a url does not see the instance pending for an earlier one
Repeats(news) == \E i, k \in 1..Len(news) : i # k /\ news[i] = news[k]

\* the commit of phase 1, main.py 152-164: one INSERT per added instance
PhaseOneError(st, news, row) ==
    IF news = <<>> THEN NULL
    ELSE IF \E i \in 1..Len(news) : InsertError(st, news[i], row) # NULL THEN "IntegrityError"
    ELSE IF Repeats(news) THEN "IntegrityError"
    ELSE NULL

InsertAll(st, news, row) == [u \in DOMAIN st \cup {news[i] : i \in 1..Len(news)} |->
                                IF u \in DOMAIN st THEN st[u] ELSE row]

\* a handler that logs the failure of phase 1 and goes on to the enqueue
PhaseOneLogged(err) == FALSE

\* main.py 165-168: a failure of phase 1 is rolled back and raised as the 500
\* of the handler, which ends it before line 170
PhaseOneRaises(err) == err # NULL

\* a handler without the check of line 142
NoUrlsUnchecked(urls) == FALSE

\* if not payload.urls, main.py 142
NoUrls(urls) == urls = <<>>

\* classify_image_urls up to the enqueue, main.py 142-172
Submit ==
    /\ \E urls \in Batches, dbOk \in DbChoices :
        LET news == Unseen(store, urls)
            err == IF ~dbOk THEN "OperationalError" ELSE PhaseOneError(store, news, BlankRecord)
            about == [NoAbout EXCEPT !.count = Len(urls),
                                     !.added = IF news = <<>> THEN "none"
                                               ELSE BlankRecord.status,
                                     !.repeats = Repeats(news)]
        IN
        /\ Accept(IF urls = <<>> THEN 1 ELSE Len(urls))
        /\ IF NoUrls(urls)
           THEN /\ dbOk
                /\ resp' = Respond("submit", 400, "No URLs provided.", about)
                /\ UNCHANGED <<api, store, dbFaults, jobs, nextJob>>
           ELSE IF PhaseOneRaises(err)
           THEN /\ resp' = Respond("submit", 500,
                                   "Failed to prepare database records for the job.", about)
                /\ dbFaults' = dbFaults - Cost(dbOk)
                /\ UNCHANGED <<api, store, jobs, nextJob>>
           ELSE /\ store' = IF err = NULL THEN InsertAll(store, news, BlankRecord) ELSE store
                /\ jobs' = [jobs EXCEPT ![nextJob] = [urls |-> urls, phase |-> "queued"]]
                /\ nextJob' = nextJob + 1
                /\ api' = [IdleApi EXCEPT !.op = "submit", !.job = nextJob, !.link = news,
                                          !.about = about]
                /\ UNCHANGED <<resp, dbFaults>>
    /\ UNCHANGED <<model, artifact, unit, backend, sideVars>>

LinkJob(st, link, j) ==
    [u \in DOMAIN st |-> IF \E i \in 1..Len(link) : link[i] = u
                         THEN [st[u] EXCEPT !.job_id = j] ELSE st[u]]

\* a phase 2 that goes to the database whatever it has to link
LinkFaultsAlways(link) == DbChoices

\* main.py 175-182: phase 2 refreshes and updates the records phase 1
\* created; without any, its commit has nothing to send to the database
LinkFaults(link) == IF link = <<>> THEN {TRUE} ELSE DbChoices

\* a handler that waits for the task, as task.get() would
DelayedAndDone(a) == a.op = "submit" /\ jobs[a.job].phase \in {"finished", "expired"}

\* task = classify_images_from_urls_task.delay(...), main.py 170: the handler
\* goes on as soon as the task message is sent
Delayed(a) == a.op = "submit"

\* classify_image_urls, phase 2 and the response, main.py 175-193
SubmitLink ==
    /\ Delayed(api)
    /\ \E dbOk \in LinkFaults(api.link) :
        /\ dbFaults' = dbFaults - Cost(dbOk)
        /\ IF dbOk
           THEN /\ store' = LinkJob(store, api.link, api.job)
                /\ resp' = [Respond("submit", 202, NULL, api.about) EXCEPT !.job_id = api.job]
           ELSE /\ store' = store
                /\ resp' = Respond("submit", 500,
                                   "Failed to associate job ID with database records.",
                                   api.about)
    /\ api' = IdleApi
    /\ UNCHANGED <<model, artifact, unit, jobVars, requests, sideVars>>

\* classify_image_url up to the call of the unit, main.py 227-248
SingleStart ==
    /\ Accept(1)
    /\ \E u \in URLS, dbOk \in DbChoices :
        LET fresh == u \notin DOMAIN store
            err == IF ~dbOk THEN "OperationalError"
                   ELSE IF fresh THEN InsertError(store, u, BlankRecord) ELSE NULL
            about == [NoAbout EXCEPT !.url = u, !.fresh = fresh,
                                     !.added = IF fresh THEN BlankRecord.status ELSE "none"]
        IN
        /\ dbFaults' = dbFaults - Cost(dbOk)
        /\ IF err # NULL
           THEN /\ resp' = Respond("single", 500, "A database error occurred.", about)
                /\ UNCHANGED <<api, store, unit>>
           ELSE /\ store' = IF fresh THEN Insert(store, u, BlankRecord) ELSE store
                /\ api' = [IdleApi EXCEPT !.op = "single", !.about = about]
                /\ unit' = [unit EXCEPT ![ApiCaller] =
                               [IdleUnit EXCEPT !.pc = "lookup", !.url = u]]
                /\ resp' = resp
    /\ UNCHANGED <<model, artifact, jobVars, sideVars>>

\* AsyncResult._get_task_meta: the backend is read until a ready state has
\* been seen, which the AsyncResult then keeps
Meta(id) == IF id \in JobIds THEN backend[id] ELSE NoMeta
ReadMeta(a) == IF a.cached THEN a.meta ELSE Meta(a.job)
Remember(a, m) == [a EXCEPT !.meta = m, !.cached = m.status \in READY_STATES]

\* ids a client can send: one that was never issued (0) or one that delay() returned
QueryIds == {0} \cup {j \in JobIds : jobs[j].phase # "none"}

\* get_job_status, main.py 262-267: task_result.status
QueryStatus ==
    /\ Accept(1)
    /\ \E id \in QueryIds :
        LET m == Meta(id)
            about == [NoAbout EXCEPT !.issued = id \in JobIds /\ jobs[id].phase # "none",
                                     !.expired = id \in JobIds /\ jobs[id].phase = "expired"]
        IN api' = [Remember([IdleApi EXCEPT !.job = id], m)
                      EXCEPT !.op = "query", !.status = m.status, !.about = about]
    /\ UNCHANGED <<resp, unitVars, jobVars, sideVars>>

\* get_job_status, main.py 268: task_result.result if task_result.ready()
QueryResult ==
    /\ api.op = "query"
    /\ LET m == ReadMeta(api)
           r == IF m.status \notin READY_STATES THEN NullResult
                ELSE IF m.status = "FAILURE" THEN ExcResult(m.info)
                ELSE ListResult(m.result)
       IN api' = [Remember(api, m) EXCEPT !.op = "respond", !.result = r]
    /\ UNCHANGED <<resp, requests, unitVars, jobVars, sideVars>>

\* the response_model of the route, baseModels.py 30-34
ConformsToJobResultResponse(r) == r.kind \in {"null", "list"}

\* get_job_status, main.py 272-275, and the validation of the returned dict
QueryRespond ==
    /\ api.op = "respond"
    /\ LET m == ReadMeta(api)
           r == IF m.status = "FAILURE" THEN StrResult(m.info) ELSE api.result
       IN resp' = [Respond("query", IF ConformsToJobResultResponse(r) THEN 200 ELSE 500,
                           NULL, api.about)
                      EXCEPT !.job_id = api.job, !.status = api.status, !.result = r]
    /\ api' = IdleApi
    /\ UNCHANGED <<requests, unitVars, jobVars, sideVars>>

\* ----- the review endpoints, main.py 296-437 -----
\* reading an attribute of a record: AttributeError when the class has none
\* of that name
GetAttr(name) == IF name \in Columns THEN NULL ELSE "AttributeError"
\* assigning a field of a pydantic model: ValueError when the model has none
\* of that name
SetField(name) == IF name \in ResultFields THEN NULL ELSE "ValueError"

\* main.py 310-312: the records the admin has not reviewed yet
PendingReview(st) == {u \in DOMAIN st : ~st[u].admin_reviewed /\ st[u].status = "success"}

\* main.py 320-339, one turn of the loop: the condition of line 328 reads
\* image.filename when the record has a folder, line 338 assigns
\* result_image.local_url
ListItemError(row) ==
    IF row.folder_location # NULL /\ GetAttr("filename") # NULL THEN GetAttr("filename")
    ELSE SetField("local_url")

\* review_lookedup_images, main.py 301-344; no commit is reached before an
\* exception leaves the loop
ReviewLookedupImages ==
    /\ Accept(1)
    /\ \E dbOk \in DbChoices :
        LET pending == PendingReview(store)
            errs == {ListItemError(store[u]) : u \in pending} \ {NULL}
        IN
        /\ dbFaults' = dbFaults - Cost(dbOk)
        /\ resp' = IF ~dbOk THEN Respond("list", 500, "OperationalError", NoAbout)
                   ELSE IF errs # {}
                   THEN Respond("list", 500, CHOOSE e \in errs : TRUE, NoAbout)
                   ELSE [Respond("list", 200, NULL, NoAbout) EXCEPT !.listed = pending]
    /\ UNCHANGED <<store, api, model, artifact, unit, jobVars, sideVars>>

\* set_image_as_reviewed sets one attribute, main.py 381
ReviewAndRelabel == [admin_reviewed |-> TRUE, re_label |-> TRUE]
ReviewChanges == [admin_reviewed |-> TRUE]

\* set_image_as_reviewed, main.py 353-385
SetImageAsReviewed ==
    /\ Accept(1)
    /\ \E u \in URLS, dbOk \in DbChoices :
        LET about == [NoAbout EXCEPT !.url = u] IN
        /\ dbFaults' = dbFaults - Cost(dbOk)
        /\ IF ~dbOk
           THEN resp' = Respond("reviewed", 500, "OperationalError", about) /\ store' = store
           ELSE IF u \notin DOMAIN store
           THEN resp' = Respond("reviewed", 404, "not found", about) /\ store' = store
           ELSE IF store[u].admin_reviewed
           THEN resp' = Respond("reviewed", 409, "has already been reviewed", about)
                /\ store' = store
           ELSE /\ store' = Update(store, u, store[u], ReviewChanges, FALSE)
                /\ resp' = Respond("reviewed", 204, NULL, about)
    /\ UNCHANGED <<api, model, artifact, unit, jobVars, sideVars>>

\* relabel_image sets both flags before its one commit, main.py 413-415
RelabelOnly == [re_label |-> TRUE]
RelabelChanges == [re_label |-> TRUE, admin_reviewed |-> TRUE]

\* main.py 422-427: the retraining directory of the other class
DestinationDir(cls) ==
    IF cls = "studio" THEN "RETRAIN_ENVIRONMENT_DIR"
    ELSE IF cls = "environment" THEN "RETRAIN_STUDIO_DIR"
    ELSE "ERROR_IMAGE_DIR"

\* relabel_image, main.py 394-437: the flags are committed at line 415, the
\* path of the file is built at 419 from db_record.filename
RelabelImage ==
    /\ Accept(1)
    /\ \E u \in URLS, dbOk \in DbChoices :
        LET about == [NoAbout EXCEPT !.url = u] IN
        /\ dbFaults' = dbFaults - Cost(dbOk)
        /\ IF ~dbOk
           THEN resp' = Respond("relabel", 500, "OperationalError", about) /\ store' = store
           ELSE IF u \notin DOMAIN store
           THEN resp' = Respond("relabel", 404, "not found", about) /\ store' = store
           ELSE IF store[u].admin_reviewed
           THEN resp' = Respond("relabel", 409, "has already been reviewed", about)
                /\ store' = store
           ELSE /\ store' = Update(store, u, store[u], RelabelChanges, FALSE)
                /\ resp' = IF GetAttr("filename") # NULL
                           THEN Respond("relabel", 500, GetAttr("filename"), about)
                           ELSE [Respond("relabel", 204, NULL, about)
                                    EXCEPT !.copy = DestinationDir(store[u].predicted_class)]
    /\ UNCHANGED <<api, model, artifact, unit, jobVars, sideVars>>

\* ----- the system -----
\* the urls that have a row at the start, up to the renaming of urls
StoredUrls == {{}, {"u1"}, URLS}

Init ==
    /\ store \in UNION {[S -> {PlaceholderRow}] : S \in StoredUrls}
    /\ artifact \in {"ok", "missing"}
    /\ model = [p \in Processes |-> IF p = "api" /\ artifact = "ok" THEN "loaded" ELSE "None"]
    /\ unit = [c \in Callers |-> IdleUnit]
    /\ dbFaults = MaxDbFaults
    /\ jobs = [j \in JobIds |-> NoJobEntry]
    /\ backend = [j \in JobIds |-> NoMeta]
    /\ nextJob = 1
    /\ api = IdleApi
    /\ resp = NoResp
    /\ requests = MaxLoad
    /\ model_lock = 0
    /\ gm = [t \in Threads |-> IdleCall]
    /\ loadCount = [tried |-> 0, built |-> 0]
    /\ infer = NoInference

Lookup == \E c \in Callers : UnitLookup(c)
Work == \E c \in Callers : UnitWork(c)
StartTask == \E j \in JobIds : TaskStart(j) /\ UNCHANGED apiVars
FinishTask == \E j \in JobIds : TaskFinish(j) /\ UNCHANGED apiVars
Expire == Tick /\ UNCHANGED apiVars

Next ==
    \/ Lookup
    \/ Work
    \/ StartTask
    \/ FinishTask
    \/ Expire
    \/ Submit
    \/ SubmitLink
    \/ SingleStart
    \/ QueryStatus
    \/ QueryResult
    \/ QueryRespond
    \/ ReviewLookedupImages
    \/ SetImageAsReviewed
    \/ RelabelImage

Spec == Init /\ [][Next]_vars

\* ----- the worker and the submissions alone -----
NextPool ==
    \/ Lookup
    \/ Work
    \/ StartTask
    \/ FinishTask
    \/ Submit
    \/ SubmitLink

SpecPool == Init /\ [][NextPool]_vars

\* ----- the single-item endpoint alone -----
NextSingle ==
    \/ Lookup
    \/ Work
    \/ SingleStart

SpecSingle == Init /\ [][NextSingle]_vars

\* ----- the review endpoints next to the single-item endpoint -----
NextReview ==
    \/ Lookup
    \/ Work
    \/ SingleStart
    \/ ReviewLookedupImages
    \/ SetImageAsReviewed
    \/ RelabelImage

SpecReview == Init /\ [][NextReview]_vars

\* ----- one task whose batch repeats a URL -----
\* the task has been enqueued and no client sends anything else; the record
\* store does not fail
InitRepeat ==
    /\ store = ("u1" :> PlaceholderRow)
    /\ artifact \in {"ok", "missing"}
    /\ model = [p \in Processes |-> IF p = "api" /\ artifact = "ok" THEN "loaded" ELSE "None"]
    /\ unit = [c \in Callers |-> IdleUnit]
    /\ dbFaults = 0
    /\ \E n \in 1..MaxRepeat :
          jobs = [j \in JobIds |-> IF j = 1 THEN [urls |-> [i \in 1..n |-> "u1"], phase |-> "queued"]
                                   ELSE NoJobEntry]
    /\ backend = [j \in JobIds |-> NoMeta]
    /\ nextJob = 2
    /\ api = IdleApi
    /\ resp = NoResp
    /\ requests = 0
    /\ model_lock = 0
    /\ gm = [t \in Threads |-> IdleCall]
    /\ loadCount = [tried |-> 0, built |-> 0]
    /\ infer = NoInference

NextRepeat ==
    \/ Lookup
    \/ Work
    \/ StartTask
    \/ FinishTask

SpecRepeat == InitRepeat /\ [][NextRepeat]_vars

\* the same run with the scheduling the worker gives: a pool thread that can
\* take a step takes one (the fetch has a timeout of 15 s, the store answers
\* or raises), and the worker process takes a queued task and returns from a
\* task whose pool has joined
FairRepeat ==
    /\ WF_vars(Lookup)
    /\ WF_vars(Work)
    /\ WF_vars(StartTask)
    /\ WF_vars(FinishTask)

\* one enqueued task of up to MaxBatch urls; the record store does not fail
InitLive ==
    /\ store = ("u1" :> PlaceholderRow)
    /\ artifact \in {"ok", "missing"}
    /\ model = [p \in Processes |-> IF p = "api" /\ artifact = "ok" THEN "loaded" ELSE "None"]
    /\ unit = [c \in Callers |-> IdleUnit]
    /\ dbFaults = 0
    /\ \E n \in 1..MaxBatch :
          jobs = [j \in JobIds |-> IF j = 1 THEN [urls |-> [i \in 1..n |-> "u1"], phase |-> "queued"]
                                   ELSE NoJobEntry]
    /\ backend = [j \in JobIds |-> NoMeta]
    /\ nextJob = 2
    /\ api = IdleApi
    /\ resp = NoResp
    /\ requests = 0
    /\ model_lock = 0
    /\ gm = [t \in Threads |-> IdleCall]
    /\ loadCount = [tried |-> 0, built |-> 0]
    /\ infer = NoInference

SpecLive == InitLive /\ [][NextRepeat]_vars /\ FairRepeat

\* ----- download_and_classify_url called on its own -----
\* the function is called for a url whether or not the store has its record
\* (lines 114-119 are written for the url without one)
InitUnit ==
    /\ store \in UNION {[S -> {PlaceholderRow}] : S \in StoredUrls}
    /\ artifact \in {"ok", "missing"}
    /\ model = [p \in Processes |-> IF p = "api" /\ artifact = "ok" THEN "loaded" ELSE "None"]
    /\ unit = [c \in Callers |-> IdleUnit]
    /\ dbFaults = MaxDbFaults
    /\ jobs = [j \in JobIds |-> NoJobEntry]
    /\ backend = [j \in JobIds |-> NoMeta]
    /\ nextJob = 1
    /\ api = IdleApi
    /\ resp = NoResp
    /\ requests = MaxLoad
    /\ model_lock = 0
    /\ gm = [t \in Threads |-> IdleCall]
    /\ loadCount = [tried |-> 0, built |-> 0]
    /\ infer = NoInference

\* a thread calls download_and_classify_url(url), worker.py 92
UnitCall(c, u) ==
    /\ unit[c].pc = "idle"
    /\ requests > 0
    /\ requests' = requests - 1
    /\ unit' = [unit EXCEPT ![c] = [IdleUnit EXCEPT !.pc = "lookup", !.url = u]]
    /\ UNCHANGED <<store, model, artifact, dbFaults, jobVars, api, resp, sideVars>>

Invoke == \E t \in Threads, u \in URLS : UnitCall(<<1, t>>, u)

NextUnit ==
    \/ Invoke
    \/ Lookup
    \/ Work

SpecUnit == InitUnit /\ [][NextUnit]_vars

\* ----- the decision rule and the formatting alone -----
\* float(prediction[0][0]), worker.py 145: outputs of the sigmoid, every one
\* within MaxProbe of 0.5, the two ends of the range and a grid between
ProbeScores ==
    {ScoreUnit \div 2 + d : d \in 0..MaxProbe} \cup {ScoreUnit \div 2 - d : d \in 0..MaxProbe}
    \cup {0, 1, 4, 5, 6, ScoreUnit - 1, ScoreUnit - 5, ScoreUnit}
    \cup {1000 * k : k \in 0..100}

InitInfer ==
    /\ store = [u \in {} |-> PlaceholderRow]
    /\ artifact = "ok"
    /\ model = [p \in Processes |-> "loaded"]
    /\ unit = [c \in Callers |-> IdleUnit]
    /\ dbFaults = 0
    /\ jobs = [j \in JobIds |-> NoJobEntry]
    /\ backend = [j \in JobIds |-> NoMeta]
    /\ nextJob = 1
    /\ api = IdleApi
    /\ resp = NoResp
    /\ requests = 0
    /\ model_lock = 0
    /\ gm = [t \in Threads |-> IdleCall]
    /\ loadCount = [tried |-> 0, built |-> 0]
    /\ infer = NoInference

\* the model answers with some score and the unit builds its results
Predict ==
    /\ \E score \in ProbeScores : infer' = Inference("u1", score)
    /\ UNCHANGED <<unitVars, jobVars, apiVars, gmVars>>

NextInfer ==
    \/ Predict

SpecInfer == InitInfer /\ [][NextInfer]_vars

\* ----- the pool threads in get_model -----
\* the worker process starts without a model (worker.py 258); the artifact
\* loads, is missing, or loads and fails its first prediction
InitModel ==
    /\ store = [u \in {} |-> PlaceholderRow]
    /\ artifact \in {"ok", "missing", "broken"}
    /\ model = [p \in Processes |-> "None"]
    /\ unit = [c \in Callers |-> IdleUnit]
    /\ dbFaults = 0
    /\ jobs = [j \in JobIds |-> NoJobEntry]
    /\ backend = [j \in JobIds |-> NoMeta]
    /\ nextJob = 1
    /\ api = IdleApi
    /\ resp = NoResp
    /\ requests = MaxLoad
    /\ model_lock = 0
    /\ gm = [t \in Threads |-> IdleCall]
    /\ loadCount = [tried |-> 0, built |-> 0]
    /\ infer = NoInference

restOfSystem == <<store, artifact, unit, dbFaults, jobVars, api, resp, infer>>

Call == \E t \in Threads : GmCall(t) /\ UNCHANGED restOfSystem
Check == \E t \in Threads : GmCheck(t) /\ UNCHANGED restOfSystem
Acquire == \E t \in Threads : GmAcquire(t) /\ UNCHANGED restOfSystem
Recheck == \E t \in Threads : GmRecheck(t) /\ UNCHANGED restOfSystem
Load == \E t \in Threads : GmLoad(t) /\ UNCHANGED restOfSystem
Warm == \E t \in Threads : GmWarm(t) /\ UNCHANGED restOfSystem
Release == \E t \in Threads : GmRelease(t) /\ UNCHANGED restOfSystem
Return == \E t \in Threads : GmReturn(t) /\ UNCHANGED restOfSystem

NextModel ==
    \/ Call
    \/ Check
    \/ Acquire
    \/ Recheck
    \/ Load
    \/ Warm
    \/ Release
    \/ Return

SpecModel == InitModel /\ [][NextModel]_vars

\* ----- properties -----

\* C1: the result list of a task that returned has one entry per submitted
\* url, and the i-th entry is the result for the i-th url
C1_ResultsInInputOrder ==
    \A j \in JobIds :
        backend[j].status = "SUCCESS" =>
            /\ Len(backend[j].result) = Len(jobs[j].urls)
            /\ \A i \in 1..Len(jobs[j].urls) : backend[j].result[i].url = jobs[j].urls[i]

\* a task over two urls returned, its first item succeeded and its second failed
C1_Witness ==
    \E j \in JobIds :
        /\ backend[j].status = "SUCCESS"
        /\ Len(jobs[j].urls) = 2
        /\ jobs[j].urls[1] # jobs[j].urls[2]
        /\ backend[j].result[1].status = "success"
        /\ IsError(backend[j].result[2].status)

\* C2: a single-item call that follows a successful call for the same url and
\* succeeds again returns the same class and the same confidence_level text
C2_CacheHitIdentical ==
    [][(/\ resp.op = "single" /\ resp.code = 200 /\ resp.item.status = "success"
        /\ resp' # resp
        /\ resp'.op = "single" /\ resp'.code = 200 /\ resp'.item.status = "success"
        /\ resp'.item.url = resp.item.url)
       => (/\ resp'.item.predicted_class = resp.item.predicted_class
           /\ resp'.item.confidence_level = resp.item.confidence_level)]_vars

\* C3: no invocation of download_and_classify_url ends with an exception,
\* neither on a pool thread nor under classify_image_url
C3_UnitNeverRaises ==
    /\ \A c \in Callers : unit[c].pc # "raised"
    /\ ~(resp.op = "single" /\ resp.detail = "Internal Server Error")

\* C4: no task ends in FAILURE, whatever happens to its items
C4_ItemFailureStaysLocal ==
    \A j \in JobIds : backend[j].status # "FAILURE"

\* C5: once a classification request for a previously unseen url has been
\* answered, the url has its record
C5_NewUrlHasOneRecord ==
    (resp.op = "single" /\ resp.about.fresh) => resp.about.url \in DOMAIN store

\* C6: a query for a task id that was never issued is answered not-found
C6_UnknownJobNotFound ==
    (resp.op = "query" /\ ~resp.about.issued) => resp.code = 404

\* C7: a query for a task whose retention window has elapsed is answered
\* not-found
C7_ExpiredJobNotFound ==
    (resp.op = "query" /\ resp.about.expired) => resp.code = 404

\* C8: the dict get_job_status returns has a result only under status SUCCESS
\* (the result list of the task) or FAILURE (the failure detail)
C8_ResultOnlyWhenTerminal ==
    resp.op = "query" =>
        /\ resp.status \notin {"SUCCESS", "FAILURE"} => resp.result = NullResult
        /\ resp.status = "SUCCESS" => resp.result.kind = "list"
        /\ resp.status = "FAILURE" => resp.result.kind = "str"

\* C9: every job query is answered with a payload that conforms to
\* JobResultResponse
C9_QueryPayloadWellFormed ==
    resp.op = "query" => (resp.code = 200 /\ ConformsToJobResultResponse(resp.result))

\* C11: while classify_image_urls holds the id of the task it enqueued, its
\* response can be produced at once, whether the task is still queued, is
\* running or has finished
C11_SubmitterNeverWaits ==
    api.op = "submit" => ENABLED SubmitLink

\* the handler is about to respond and the worker has already finished its task
C11_Witness ==
    /\ api.op = "submit"
    /\ jobs[api.job].phase = "finished"

\* C12: a submission of an empty list is answered 400, leaves the record
\* store, the task table and the result backend as they were, and no task
\* has an empty url list
C12_EmptySubmissionRejected ==
    /\ [](\A j \in JobIds : jobs[j].phase # "none" => jobs[j].urls # <<>>)
    /\ [][(/\ api.op = "idle" /\ api'.op = "idle" /\ requests' < requests
           /\ resp'.op = "submit" /\ resp'.about.count = 0)
          => (/\ resp'.code = 400
              /\ resp'.detail = "No URLs provided."
              /\ store' = store
              /\ jobs' = jobs
              /\ backend' = backend
              /\ nextJob' = nextJob)]_vars

\* an empty submission was rejected while the store has records
C12_Witness ==
    /\ resp.op = "submit"
    /\ resp.about.count = 0
    /\ resp.code = 400
    /\ DOMAIN store # {}

\* C13: at most one thread is inside the load section of get_model, the
\* artifact is built into a model at most once, and once the worker has its
\* model and the load section is left no step loads again or changes the model
C13_ModelLoadedOnce ==
    /\ [](Cardinality({t \in Threads : gm[t].pc \in LoadSection}) <= 1)
    /\ [](loadCount.built <= 1)
    /\ [][(model["worker"] # "None" /\ \A t \in Threads : gm[t].pc \notin LoadSection)
          => (model' = model /\ loadCount' = loadCount)]_vars

\* a thread that saw no model before it took the lock finds, under the lock,
\* the model another thread has loaded meanwhile
C13_Witness ==
    \E t \in Threads :
        /\ gm[t].pc = "recheck"
        /\ model["worker"] = "loaded"
        /\ loadCount.built = 1

\* C14: when the artifact does not load, the load is tried once in the life
\* of the process and every call of get_model returns None
C14_FailedLoadIsTerminal ==
    artifact # "ok" =>
        /\ loadCount.tried <= 1
        /\ \A t \in Threads : gm[t].ret # "loaded"

PoolCallers == Callers \ {ApiCaller}

\* the invocation of c ends in this step without a failure of the record store
Ends(c) ==
    /\ unit[c].pc = "work"
    /\ unit'[c].pc \in {"returned", "raised"}
    /\ dbFaults' = dbFaults

\* C15: an invocation whose fetch is answered non-2xx or with a content type
\* that is not an image returns the not-an-image error result and leaves
\* that status on the record
C15_FetchFailureIsNotAnImage ==
    [][\A c \in PoolCallers :
          (Ends(c) /\ unit'[c].fetched \in {"httpError", "notImage"})
          => (/\ unit'[c].pc = "returned"
              /\ unit'[c].result = ErrorResult(unit[c].url, "error - url is not an image")
              /\ store'[unit[c].url].status = "error - url is not an image")]_vars

\* C16: while the worker has no model, an invocation whose fetch gives an
\* image returns the model-not-available error result, leaves that status on
\* the record, and its thread takes the next waiting url of the task
C16_ModelUnavailableRecorded ==
    [][\A c \in PoolCallers :
          (/\ Ends(c)
           /\ unit'[c].fetched \in {"image", "badImage"}
           /\ model'["worker"] = "None")
          => (/\ unit'[c].pc = "returned"
              /\ unit'[c].result = ErrorResult(unit[c].url, "error - model not available")
              /\ store'[unit[c].url].status = "error - model not available"
              /\ Waiting(unit, c[1]) # {} => Waiting(unit', c[1]) # Waiting(unit, c[1]))]_vars

\* a task over two urls returned with the model-not-available result for both
C16_Witness ==
    \E j \in JobIds :
        /\ backend[j].status = "SUCCESS"
        /\ Len(backend[j].result) = 2
        /\ \A i \in 1..2 : /\ backend[j].result[i].status = "error - model not available"
                            /\ backend[j].result[i].predicted_class = "unknown"
                            /\ backend[j].result[i].confidence_level = ZeroStr

\* C17: when two invocations have both fetched the same url, one of them
\* found it a success record or made it one
C17_OneFetchPerUrl ==
    \A c1, c2 \in PoolCallers :
        (/\ c1 # c2
         /\ unit[c1].url = unit[c2].url
         /\ unit[c1].fetched # NULL
         /\ unit[c2].fetched # NULL)
        => (unit[c1].result.status = "success" \/ unit[c2].result.status = "success")

\* C18: the class of every result an invocation returns is environment,
\* studio or "unknown", and it is "unknown" exactly when the status of the
\* result is an error status
C18_ClassMatchesStatus ==
    \A c \in PoolCallers :
        unit[c].pc = "returned" =>
            /\ unit[c].result.predicted_class \in {CLASS_NAMES[1], CLASS_NAMES[2], "unknown"}
            /\ unit[c].result.predicted_class = "unknown" <=> IsError(unit[c].result.status)

\* text is digits, a point and exactly two digits, and reads at most 100
IsDigit(ch) == ch \in {"0", "1", "2", "3", "4", "5", "6", "7", "8", "9"}
TwoDecimalPercent(text) ==
    /\ Len(text) \in 4..6
    /\ text[Len(text) - 2] = "."
    /\ \A i \in 1..Len(text) : i # Len(text) - 2 => IsDigit(text[i])
    /\ Len(text) = 6 => text = <<"1", "0", "0", ".", "0", "0">>
    /\ (Len(text) > 4) => text[1] # "0"

\* C19: the confidence_level of the fresh result, of the cache-hit result
\* and of the error result is a percentage written with two decimals
C19_ConfidenceTwoDecimals ==
    infer.score >= 0 =>
        /\ TwoDecimalPercent(infer.fresh.confidence_level)
        /\ TwoDecimalPercent(infer.hit.confidence_level)
        /\ TwoDecimalPercent(infer.error.confidence_level)

\* C20: a score of at least 0.5 gives studio with the score as confidence, a
\* smaller score gives environment with one minus the score; 0.5 gives
\* studio, and the confidence stored and returned is at least 50 percent
C20_DecisionRule ==
    infer.score >= 0 =>
        LET s == infer.score
            conf == IF 2 * s >= ScoreUnit THEN s ELSE ScoreUnit - s
        IN /\ 2 * s >= ScoreUnit => infer.fresh.predicted_class = "studio"
           /\ 2 * s < ScoreUnit => infer.fresh.predicted_class = "environment"
           /\ infer.record.predicted_class = infer.fresh.predicted_class
           /\ infer.record.confidence_level = RoundHundredths(conf)
           /\ infer.fresh.confidence_level = FormatFixed2(conf)
           /\ infer.record.confidence_level >= 5000
           /\ infer.record.confidence_level <= 10000
           /\ infer.fresh.status = "success"

\* the score on the boundary was classified
C20_Witness ==
    /\ 2 * infer.score = ScoreUnit
    /\ infer.fresh.predicted_class = "studio"
    /\ infer.fresh.confidence_level = <<"5", "0", ".", "0", "0">>

Terminal(status) == status = "success" \/ IsError(status)

\* C21: the status of a record only moves forward: once it is success or an
\* error status no step changes it, and no step takes any status back to the
\* empty status of the placeholder or to "processing"
C21_StatusOnlyForward ==
    [][\A u \in DOMAIN store :
          /\ Terminal(store[u].status) => store'[u].status = store[u].status
          /\ store[u].status = "processing" => store'[u].status # NULL]_vars

\* C22: a record has a confidence_level exactly when its status is success
C22_ConfidenceIffSuccess ==
    \A u \in DOMAIN store :
        store[u].confidence_level # NoConf <=> store[u].status = "success"

\* the invocation of c ends in this step, at its cache check or after its
\* fetch, without a failure of the record store
Returns(c) ==
    /\ unit[c].pc \in {"lookup", "work"}
    /\ unit'[c].pc \in {"returned", "raised"}
    /\ dbFaults' = dbFaults

CacheHit(c) == unit[c].pc = "lookup" /\ unit'[c].result.status = "success"

\* C23: an invocation that ends as a cache hit has committed no write to the
\* record store, every other invocation has committed exactly one
C23_OneWritePerInvocation ==
    [][\A c \in PoolCallers :
          Returns(c) => unit'[c].writes = (IF CacheHit(c) THEN 0 ELSE 1)]_vars

\* the store rejects the INSERT of the record the unit creates for its url
CreateRejected(c) ==
    /\ unit[c].pc = "lookup"
    /\ unit'[c].pc # "lookup"
    /\ unit[c].url \notin DOMAIN store
    /\ dbFaults' = dbFaults
    /\ InsertError(store, unit[c].url, ImageRecord("processing")) # NULL

\* C24: an invocation whose creating insert the store rejects does not end
\* with an item error for the rejection; it goes on to its fetch
C24_RejectedCreateIsNotAnItemError ==
    [][\A c \in PoolCallers :
          CreateRejected(c) => (~IsError(unit'[c].result.status) /\ unit'[c].pc = "work")]_vars

\* C25: the record a handler or the unit creates for a url it sees for the
\* first time has status pending or processing, never the empty status
C25_CreatedPendingOrProcessing ==
    /\ resp.op \in {"submit", "single"} =>
           resp.about.added \in {"none", "pending", "processing"}
    /\ \A c \in Callers :
           (unit[c].pc = "work" /\ unit[c].writes = 1) =>
               unit[c].loaded.status \in {"pending", "processing"}

\* C26: every record has image_type url or upload, and while the database
\* has not failed a request that creates the record of a new url is not
\* answered with the error of a failed creation
C26_InsertSatisfiesSchema ==
    /\ \A u \in DOMAIN store : store[u].image_type \in {"url", "upload"}
    /\ (resp.about.added # "none" /\ dbFaults = MaxDbFaults) =>
           resp.detail \notin {"Failed to prepare database records for the job.",
                               "A database error occurred."}

\* C27: every url of a task that is queued or running has its record in the
\* store, so no invocation of a batch item looks up a url without a record
\* or creates one
C27_BatchItemsHaveRecords ==
    /\ \A j \in JobIds :
           jobs[j].phase \in {"queued", "running"} =>
               \A i \in Items(j) : jobs[j].urls[i] \in DOMAIN store
    /\ \A c \in PoolCallers :
           /\ unit[c].pc = "lookup" => unit[c].url \in DOMAIN store
           /\ unit[c].pc = "work" => unit[c].writes = 0

\* a task over two urls is running and both items found their record
C27_Witness ==
    \E j \in JobIds :
        /\ jobs[j].phase = "running"
        /\ Len(jobs[j].urls) = 2
        /\ jobs[j].urls[1] # jobs[j].urls[2]
        /\ unit[<<j, 1>>].pc = "work"
        /\ unit[<<j, 2>>].pc = "work"

\* classify_image_urls ends in this step without having enqueued a task
SubmitRefused ==
    /\ api.op = "idle"
    /\ api'.op = "idle"
    /\ requests' < requests
    /\ resp'.op = "submit"

\* classify_image_urls ends in this step after it enqueued a task
SubmitAnswered == api.op = "submit" /\ api'.op = "idle"

C30_FailedCreationCommitsNothing ==
    /\ [](\A j \in JobIds : \A i \in Items(j) : jobs[j].urls[i] \in DOMAIN store)
    /\ [][(SubmitRefused /\ resp'.code = 500)
          => (/\ resp'.detail = "Failed to prepare database records for the job."
              /\ store' = store
              /\ jobs' = jobs
              /\ backend' = backend
              /\ nextJob' = nextJob)]_vars

\* a submission of two urls, one of them new, was answered 500 while the
\* database was working: the record that existed is there, the other is not,
\* and there is no task
C30_Witness ==
    /\ resp.op = "submit"
    /\ resp.code = 500
    /\ resp.about.count = 2
    /\ resp.about.added # "none"
    /\ dbFaults = MaxDbFaults
    /\ DOMAIN store = {"u1"}
    /\ store["u1"] = PlaceholderRow
    /\ \A j \in JobIds : jobs[j].phase = "none"

\* the tasks whose batch names u; delay() issues their ids in rising order
JobsOf(u) == {j \in JobIds : jobs[j].phase # "none" /\ \E i \in Items(j) : jobs[j].urls[i] = u}
LastJobOf(u) == CHOOSE j \in JobsOf(u) : \A k \in JobsOf(u) : k <= j

\* C31: when no submission is in progress, the job_id of every record whose
\* url was in some batch is the id of the last task whose batch named it
C31_JobIdIsLastJob ==
    api.op = "idle" =>
        \A u \in DOMAIN store : JobsOf(u) # {} => store[u].job_id = LastJobOf(u)

\* C32: while an item of a task is waiting or running the backend has
\* nothing for the task, and the step that publishes SUCCESS is taken when
\* every item has returned and publishes the result of each
C32_SuccessAfterAllUnits ==
    /\ [](\A j \in JobIds :
             (\E i \in Items(j) : unit[<<j, i>>].pc \in {"idle", "lookup", "work"}
                                  /\ jobs[j].phase = "running")
             => backend[j] = NoMeta)
    /\ [][\A j \in JobIds :
             (backend[j].status # "SUCCESS" /\ backend'[j].status = "SUCCESS")
             => (/\ \A i \in Items(j) : unit[<<j, i>>].pc = "returned"
                 /\ \A i \in Items(j) : backend'[j].result[i] = unit[<<j, i>>].result
                 /\ \A i \in Items(j) : backend'[j].result[i].status # NULL)]_vars

\* one item of a running task has returned, the other is still at work,
\* and the backend has no result for the task
C32_Witness ==
    \E j \in JobIds :
        /\ jobs[j].phase = "running"
        /\ Len(jobs[j].urls) = 2
        /\ unit[<<j, 2>>].pc = "returned"
        /\ unit[<<j, 1>>].pc = "work"
        /\ backend[j].status = "PENDING"

\* C33: under fair scheduling every enqueued task finishes, whatever the
\* length of its batch
C33_EveryJobTerminates ==
    \A j \in JobIds : (jobs[j].phase = "queued") ~> (jobs[j].phase = "finished")

\* a task with more urls than pool threads has finished
C33_Witness ==
    \E j \in JobIds :
        /\ jobs[j].phase = "finished"
        /\ Len(jobs[j].urls) > MAX_WORKERS
        /\ backend[j].status \in {"SUCCESS", "FAILURE"}

\* C34: in every record re_label implies admin_reviewed
C34_RelabelImpliesReviewed ==
    \A u \in DOMAIN store : store[u].re_label => store[u].admin_reviewed

\* a classified record has been relabelled
C34_Witness ==
    \E u \in DOMAIN store :
        /\ store[u].re_label
        /\ store[u].status = "success"
        /\ resp.op = "relabel"

\* the step in which the event loop runs the review handler of this name
\* from the request to the response
ReviewStep(op) == requests' = requests - 1 /\ api' = api /\ resp'.op = op

\* C35: review_lookedup_images answers with exactly the records that have
\* status success and are not reviewed
C35_ListsExactlyPending ==
    [][(ReviewStep("list") /\ dbFaults' = dbFaults)
       => (resp'.code = 200 /\ resp'.listed = PendingReview(store))]_vars

\* C36: set_image_as_reviewed answers 404 for a url without a record and 409
\* for a reviewed record and leaves the store as it is; otherwise it sets
\* admin_reviewed of that record and nothing else
C36_SetReviewedFrame ==
    [][\A u \in URLS :
         (ReviewStep("reviewed") /\ resp'.about.url = u /\ dbFaults' = dbFaults)
         => IF u \notin DOMAIN store THEN resp'.code = 404 /\ store' = store
            ELSE IF store[u].admin_reviewed THEN resp'.code = 409 /\ store' = store
            ELSE /\ resp'.code = 204
                 /\ store' = [store EXCEPT ![u].admin_reviewed = TRUE]]_vars

\* a classified record has been marked as reviewed and kept its result
C36_Witness ==
    /\ resp.op = "reviewed"
    /\ resp.code = 204
    /\ resp.about.url \in DOMAIN store
    /\ store[resp.about.url].admin_reviewed
    /\ ~store[resp.about.url].re_label
    /\ store[resp.about.url].status = "success"

\* C37: relabel_image on a record that is not reviewed sets both flags and
\* schedules the copy to the directory of the other class, and a request
\* that ends in an error leaves the store as it is
C37_RelabelCommitsWithCopy ==
    [][\A u \in URLS :
         (/\ ReviewStep("relabel") /\ resp'.about.url = u /\ dbFaults' = dbFaults
          /\ u \in DOMAIN store /\ ~store[u].admin_reviewed)
         => /\ resp'.code = 204
               => /\ store' = [store EXCEPT ![u].admin_reviewed = TRUE, ![u].re_label = TRUE]
                  /\ resp'.copy = DestinationDir(store[u].predicted_class)
            /\ resp'.code # 204 => store' = store]_vars

\* the call of get_model by thread t returns in this step
GmReturns(t) == gm[t].pc \in {"check", "return"} /\ gm'[t].pc = "idle"

\* C38: a call of get_model returns a model only when the artifact has been
\* loaded and the warm-up prediction has succeeded, which no thread is still
\* running
C38_ModelOnlyAfterWarmUp ==
    [][\A t \in Threads :
         (GmReturns(t) /\ gm'[t].ret = "loaded")
         => (artifact = "ok" /\ \A o \in Threads : gm[o].pc # "warm")]_vars

\* worker.py 156-174: the invocation of c has ended and wrote the image to a
\* file: the fetch gave an image that decodes and the process had its model
Saved(c) ==
    /\ unit[c].pc \in {"returned", "raised"}
    /\ unit[c].fetched = "image"
    /\ model[ProcessOf(c)] # "None"

\* C39: the record of the url of every invocation that wrote a file has
\* status success
C39_SavedFileHasSuccessRecord ==
    \A c \in PoolCallers :
        Saved(c) => (unit[c].url \in DOMAIN store /\ store[unit[c].url].status = "success")

\* classify_image_urls runs phase 1 in this step for a list that names a url
\* without a record more than once: it goes on to the enqueue or answers 500
SubmitsRepeated ==
    /\ api.op = "idle"
    /\ requests' < requests
    /\ \/ api'.op = "submit" /\ api'.about.repeats
       \/ api' = api /\ resp'.op = "submit" /\ resp'.code = 500 /\ resp'.about.repeats

\* C40: a submission that repeats a url without a record is accepted: a task
\* is enqueued for the whole list and the url has its record
C40_RepeatedUrlAccepted ==
    [][(SubmitsRepeated /\ dbFaults' = dbFaults)
       => /\ nextJob' = nextJob + 1
          /\ jobs'[nextJob].phase = "queued"
          /\ Len(jobs'[nextJob].urls) = api'.about.count
          /\ \A i \in 1..Len(jobs'[nextJob].urls) : jobs'[nextJob].urls[i] \in DOMAIN store']_vars

\* C10: classify_image_url answers every url with a URLClassificationResult
C10_SingleAlwaysResult ==
    resp.op = "single" => resp.code = 200

\* C10 as amended: classify_image_url answers with a URLClassificationResult
\* for the requested url in which a failure is encoded as an error status
\* with class "unknown" and confidence "0", except that a record-store
\* failure of its own lookup or creation is answered with the 500 of main.py
\* 243-246 and an exception leaving the unit with an unhandled 500
C10_SingleResultOrDatabaseError ==
    resp.op = "single" =>
        \/ /\ resp.code = 200
           /\ resp.item.url = resp.about.url
           /\ \/ resp.item.status = "success"
              \/ /\ IsError(resp.item.status)
                 /\ resp.item.predicted_class = "unknown"
                 /\ resp.item.confidence_level = ZeroStr
        \/ /\ resp.code = 500
           /\ resp.item = NoResult
           /\ resp.detail \in {"A database error occurred.", "Internal Server Error"}

\* the creation of the record of a new url failed and was answered with 500
C10_Witness ==
    /\ resp.op = "single"
    /\ resp.about.fresh
    /\ resp.code = 500
    /\ resp.detail = "A database error occurred."

====
